---- MODULE Spec2Model ----
(***************************************************************************)
(* A model of src/elements.js (DrawOnYourScreen): the DrawingElement, its  *)
(* point-acquisition builder, its transformation builder, the two path     *)
(* emitters (buildCairo, buildSVG) and the persisted record (toJSON).      *)
(*                                                                         *)
(* Numbers.  A JavaScript number is modelled exactly as a pair <<n, d>> in *)
(* lowest terms with d > 0; <<0,0>> is NaN, <<1,0>> is Infinity and        *)
(* <<-1,0>> is -Infinity.  A length Math.hypot(..) is kept as its square,  *)
(* a ratio of two lengths as a surd <<sign, n, d>> = sign * sqrt(n/d), and *)
(* an angle symbolically (see getAngle).  Floating-point rounding and the  *)
(* sign of zero are not modelled.                                          *)
(*                                                                         *)
(* Objects.  A transformation record is a TLA+ record whose DOMAIN is the  *)
(* set of properties the JavaScript object has: `delete r.startX` removes  *)
(* "startX" from the domain, an assignment to a missing property adds it.  *)
(*                                                                         *)
(* Style.  A value that a JavaScript function binds with `let` and reads   *)
(* several times is passed as a parameter to an auxiliary operator, so     *)
(* that every operator reads the expression of the value once.             *)
(***************************************************************************)
EXTENDS Integers, Sequences, FiniteSets, TLC

\* ------------------------------------------------------------------------
\* Rational numbers with the IEEE special values
\* ------------------------------------------------------------------------

AbsInt(n) == IF n < 0 THEN -n ELSE n

SgnInt(n) == IF n < 0 THEN -1 ELSE IF n = 0 THEN 0 ELSE 1

RECURSIVE Gcd(_, _)
Gcd(a, b) == IF b = 0 THEN a ELSE Gcd(b, a % b)

\* n/d for d > 0 and g = gcd(|n|, d)
Lowest(n, d, g) == <<n \div g, d \div g>>

\* n/d in lowest terms; a zero denominator gives NaN or +-Infinity
Q(n, d) ==
    IF d = 0 THEN <<SgnInt(n), 0>>
    ELSE Lowest(IF d < 0 THEN -n ELSE n, AbsInt(d), Gcd(AbsInt(n), AbsInt(d)))

NaN == <<0, 0>>

Zero == <<0, 1>>

Num(n) == <<n, 1>>

IsNaN(a) == a = NaN

IsFinite(a) == a[2] # 0

\* the sum of two finite numbers, g the gcd of the denominators
FiniteSum(a, b, g) ==
    Q(a[1] * (b[2] \div g) + b[1] * (a[2] \div g), (a[2] \div g) * b[2])

\* Infinity + Infinity is Infinity, Infinity - Infinity and NaN + x are NaN
Add(a, b) ==
    IF ~IsFinite(a) THEN (IF ~IsFinite(b) /\ b # a THEN NaN ELSE a)
    ELSE IF ~IsFinite(b) THEN b
    ELSE FiniteSum(a, b, Gcd(a[2], b[2]))

Neg(a) == <<-a[1], a[2]>>

Sub(a, b) == Add(a, Neg(b))

\* the product of two finite numbers other than 0, g = gcd(|a1|, b2) and
\* h = gcd(|b1|, a2): the common factors are removed before multiplying
FiniteProduct(a, b, g, h) ==
    <<(a[1] \div g) * (b[1] \div h), (a[2] \div h) * (b[2] \div g)>>

\* 0 * Infinity is NaN
Mul(a, b) ==
    IF ~IsFinite(a) \/ ~IsFinite(b) THEN <<SgnInt(a[1]) * SgnInt(b[1]), 0>>
    ELSE IF a[1] = 0 \/ b[1] = 0 THEN Zero
    ELSE FiniteProduct(a, b, Gcd(AbsInt(a[1]), b[2]), Gcd(AbsInt(b[1]), a[2]))

\* 1/b: 1/0 is Infinity, 1/Infinity is 0, 1/NaN is NaN
Inverse(b) ==
    IF b = NaN THEN NaN
    ELSE IF b[1] = 0 THEN <<1, 0>>
    ELSE IF b[2] = 0 THEN Zero
    ELSE IF b[1] < 0 THEN <<-b[2], -b[1]>> ELSE <<b[2], b[1]>>

Div(a, b) == Mul(a, Inverse(b))

Abs(a) == <<AbsInt(a[1]), a[2]>>

\* a < b; every comparison with NaN is false
Lt(a, b) ==
    /\ ~IsNaN(a)
    /\ ~IsNaN(b)
    /\ IF a[2] = 0 /\ b[2] = 0 THEN a[1] < b[1]
       ELSE IF a[2] = 0 THEN a[1] < 0
       ELSE IF b[2] = 0 THEN b[1] > 0
       ELSE a[1] * b[2] < b[1] * a[2]

Le(a, b) == ~IsNaN(a) /\ ~IsNaN(b) /\ (a = b \/ Lt(a, b))

Max(a, b) == IF Lt(a, b) THEN b ELSE a

Min(a, b) == IF Lt(b, a) THEN b ELSE a

\* Math.hypot(dx, dy) squared
Hypot2(dx, dy) == Add(Mul(dx, dx), Mul(dy, dy))

\* Math.round(v * 10) / 10: a rounding to one decimal, the variant of Round2
\* that claim C8 excludes
Round1(v) ==
    IF v[2] = 0 THEN v
    ELSE Q((20 * v[1] + v[2]) \div (2 * v[2]), 10)

\* Math.round(v * 100) / 100 : Math.round is floor(v + 1/2)
Round2(v) ==
    IF v[2] = 0 THEN v
    ELSE Q((200 * v[1] + v[2]) \div (2 * v[2]), 100)

\* ------------------------------------------------------------------------
\* Surds: sign * sqrt(n/d), the quotient of two lengths
\* ------------------------------------------------------------------------

One == <<1, 1, 1>>

MinusOne == <<-1, 1, 1>>

\* a falsy quotient (0 or NaN) gives 1
Truthy(v) == v # Zero /\ ~IsNaN(v)

SurdOrOne(q) == IF Truthy(q) THEN <<1, q[1], q[2]>> ELSE One

\* the variant of ScaleOrOne without the || 1 fallback
ScaleUnguarded(num2, den2) == <<1, Div(num2, den2)[1], Div(num2, den2)[2]>>

\* Math.hypot(..) / Math.hypot(..) || 1, from the squares of the two lengths:
\* 0 and NaN are falsy and give 1, a zero divisor alone gives Infinity
ScaleOrOne(num2, den2) == SurdOrOne(Div(num2, den2))

\* ------------------------------------------------------------------------
\* Angles, kept symbolically as <<kind, s, n, d>>:
\*   <<"acos", s, p, q>>     s * acos(p / sqrt(p*p + q*q)), s = +-1, q >= 0,
\*                           p and q coprime: the magnitude is atan2(q, p)
\*   <<"pi+atan", s, n, d>>  s * (Math.PI + Math.atan(n/d))
\*   <<"rad", s, n, d>>      s * n/d, a number read from a persisted record
\*   <<"nan", 0, 0, 0>>      NaN
\* ------------------------------------------------------------------------

ZeroAngle == <<"acos", 1, 1, 0>>

NaNAngle == <<"nan", 0, 0, 0>>

\* Math.PI + Math.atan(t)
PiPlusAtan(t) == <<"pi+atan", 1, t[1], t[2]>>

\* Math.PI
PiAngle == PiPlusAtan(Zero)

\* -angle
NegAngle(a) ==
    IF a = ZeroAngle \/ a = NaNAngle THEN a ELSE <<a[1], -a[2], a[3], a[4]>>

\* ------------------------------------------------------------------------
\* Enumerations and constants of the program
\* ------------------------------------------------------------------------

NONE == 0
LINE == 1
ELLIPSE == 2
RECTANGLE == 3
TEXT == 4
POLYGON == 5
POLYLINE == 6

TRANSLATION == 0
ROTATION == 1
SCALE_PRESERVE == 2
STRETCH == 3
REFLECTION == 4
INVERSION == 5

REFLECTION_TOLERANCE == 5
MIN_REFLECTION_LINE_LENGTH == 10
MIN_TRANSLATION_DISTANCE == 1
MIN_DRAWING_SIZE == 3

\* 1000 / tan(MIN_ROTATION_ANGLE) = 1000 / tan(pi/1000) = 318308.839...
MIN_ROTATION_COTAN_1000 == 318309

\* Math.PI = 3.14159265..., as the fraction 355/113 = 3.14159292...
PI_NUM == 355
PI_DEN == 113

\* Math.abs(angle) < MIN_ROTATION_ANGLE.  |s * atan2(q, p)| is below pi/1000
\* exactly when p > 0 and q/p < tan(pi/1000); |pi + atan t| >= pi/2; a
\* comparison with NaN is false.  (q is tested first to keep the product in
\* range: p is below 2^31 / 1000.)
AbsBelowMinRotation(a) ==
    \/ /\ a[1] = "acos"
       /\ a[3] > 0
       /\ a[4] < 6000
       /\ a[4] * MIN_ROTATION_COTAN_1000 < 1000 * a[3]
    \/ /\ a[1] = "rad"
       /\ AbsInt(a[3]) * 1000 * PI_DEN < PI_NUM * a[4]

\* ------------------------------------------------------------------------
\* Geometric utilities
\* ------------------------------------------------------------------------

getNearness(pointA, pointB, distance) ==
    Lt(Hypot2(Sub(pointB[1], pointA[1]), Sub(pointB[2], pointA[2])),
       Num(distance * distance))

\* points.reduce(..): the sum of the first k points (points is not empty:
\* reduce() of an empty array throws)
AddPoints(accumulator, point) ==
    <<Add(accumulator[1], point[1]), Add(accumulator[2], point[2])>>

RECURSIVE SumOfPoints(_, _)
SumOfPoints(points, k) ==
    IF k = 1 THEN points[1]
    ELSE AddPoints(SumOfPoints(points, k - 1), points[k])

DivideBy(sum, n) == <<Div(sum[1], Num(n)), Div(sum[2], Num(n))>>

\* mean of the vertices
getNaiveCenter(points) == DivideBy(SumOfPoints(points, Len(points)), Len(points))

\* one turn of the loop of getCentroid: s = <<sA, sX, sY>>, the edge from p
\* to q and its a = p[0]*q[1] - q[0]*p[1]
ShoelaceAdd(s, p, q, a) ==
    <<Add(s[1], a),
      Add(s[2], Mul(Add(p[1], q[1]), a)),
      Add(s[3], Mul(Add(p[2], q[2]), a))>>

RECURSIVE ShoelaceSum(_, _)
ShoelaceSum(P, k) ==
    IF k = 0 THEN <<Zero, Zero, Zero>>
    ELSE ShoelaceAdd(ShoelaceSum(P, k - 1), P[k], P[k+1],
                     Sub(Mul(P[k][1], P[k+1][2]), Mul(P[k+1][1], P[k][2])))

CentroidOf(points, s) ==
    IF s[1] = Zero THEN getNaiveCenter(points)
    ELSE <<Div(s[2], Mul(Num(3), s[1])), Div(s[3], Mul(Num(3), s[1]))>>

\* shoelace centroid; the push/pop of points[0] leaves the list as it was
getCentroid(points) ==
    CentroidOf(points, ShoelaceSum(Append(points, points[1]), Len(points)))

\* (w[1]*a + w[2]*b + w[3]*c + w[4]*d) / w[5]
Weighted(w, a, b, c, d) ==
    Div(Add(Add(Mul(Num(w[1]), a), Mul(Num(w[2]), b)),
            Add(Mul(Num(w[3]), c), Mul(Num(w[4]), d))), Num(w[5]))

CurvePoint(w, p0, p1, p2, p3) ==
    <<Weighted(w, p0[1], p1[1], p2[1], p3[1]), Weighted(w, p0[2], p1[2], p2[2], p3[2])>>

\* p0 = p1: (p1 + 6 p1 + 12 p2 + 8 p3) / 27, otherwise (p0 + 3 p1 + 3 p2 + p3) / 8
getCurveCenter(p0, p1, p2, p3) ==
    CurvePoint(IF p0[1] = p1[1] /\ p0[2] = p1[2]
               THEN <<1, 6, 12, 8, 27>> ELSE <<1, 3, 3, 1, 8>>,
               IF p0[1] = p1[1] /\ p0[2] = p1[2] THEN p1 ELSE p0, p1, p2, p3)

\* The sign getAngle gives the angle, for A # O
AngleSign(xO, yO, xA, yA, xB, yB, a) ==
    IF xA = xO THEN (IF Lt(xO, xB) THEN -1 ELSE 1)
    ELSE (IF Lt(yB, Add(Mul(a, xB), Sub(yA, Mul(a, xA)))) THEN -1 ELSE 1)
         * (IF Lt(xA, xO) THEN -1 ELSE 1)

\* acos of the cosine of the direction (dot, |cross|), signed by s
AngleOf(dot, cross, tan, s) ==
    IF cross = Zero /\ Lt(Zero, dot) THEN ZeroAngle
    ELSE <<"acos", s, SgnInt(dot[1]) * tan[2], tan[1]>>

AngleOfProducts(dot, cross, s) == AngleOf(dot, cross, Div(Abs(cross), Abs(dot)), s)

\* dot = OA.OB and cross = OA x OB, from the vectors OA = <<ax, ay>> and
\* OB = <<bx, by>>
AngleBetween(ax, ay, bx, by, s) ==
    IF (ax = Zero /\ ay = Zero) \/ (bx = Zero /\ by = Zero) THEN NaNAngle
    ELSE AngleOfProducts(Add(Mul(ax, bx), Mul(ay, by)), Sub(Mul(ax, by), Mul(ay, bx)), s)

\* The signed angle AOB.  cos = OA.OB / (|OA| * |OB|) is 0/0 = NaN when A or B
\* is O, and NaN survives the clamp, acos and the sign changes.  Otherwise the
\* magnitude acos(cos) is the angle of the direction (OA.OB, |OA x OB|), kept
\* as that direction in lowest terms, and the sign is decided as the code
\* decides it.
getAngle(xO, yO, xA, yA, xB, yB) ==
    AngleBetween(Sub(xA, xO), Sub(yA, yO), Sub(xB, xO), Sub(yB, yO),
                 AngleSign(xO, yO, xA, yA, xB, yB, Div(Sub(yA, yO), Sub(xA, xO))))

\* ------------------------------------------------------------------------
\* JavaScript objects and arrays
\* ------------------------------------------------------------------------

Has(r, f) == f \in DOMAIN r

\* r.f = v
Put(r, f, v) == [g \in DOMAIN r \cup {f} |-> IF g = f THEN v ELSE r[g]]

\* delete r.f for every f of fs
Delete(r, fs) == [g \in DOMAIN r \ fs |-> r[g]]

\* array[i] = v for the 0-based index i <= array.length
SetAt(array, i, v) ==
    IF i < Len(array) THEN [array EXCEPT ![i + 1] = v] ELSE Append(array, v)

Last(array) == array[Len(array)]

Front(array) == SubSeq(array, 1, Len(array) - 1)

\* an absent _originalCenter
Undefined == <<>>

\* ------------------------------------------------------------------------
\* DrawingElement: the centers and their caches.  An element e is the record
\* of the object's fields: shape, points, transformations,
\* showSymmetryElement, originalCenter (_originalCenter), textWidth,
\* lineIndex.
\* ------------------------------------------------------------------------

_getLineOffset(e) ==
    Mul(Num(e.lineIndex), Abs(Sub(e.points[2][2], e.points[1][2])))

\* the value _getOriginalCenter() computes when nothing is cached
OriginalCenterOf(e) ==
    IF e.shape = ELLIPSE THEN <<e.points[1][1], e.points[1][2]>>
    ELSE IF e.shape = LINE /\ Len(e.points) = 4
        THEN getCurveCenter(e.points[1], e.points[2], e.points[3], e.points[4])
    ELSE IF e.shape = LINE /\ Len(e.points) = 3
        THEN getCurveCenter(e.points[1], e.points[1], e.points[2], e.points[3])
    ELSE IF e.shape = TEXT /\ e.textWidth # 0
        THEN <<e.points[2][1],
               Sub(Max(e.points[1][2], e.points[2][2]), _getLineOffset(e))>>
    ELSE IF Len(e.points) >= 3 THEN getCentroid(e.points)
    ELSE getNaiveCenter(e.points)

\* _getOriginalCenter() throws a TypeError when it has to read a point that
\* is not there
OriginalCenterFaults(e) ==
    /\ e.originalCenter = Undefined
    /\ \/ Len(e.points) = 0
       \/ e.shape = TEXT /\ e.textWidth # 0 /\ Len(e.points) < 2

\* the element after _getOriginalCenter(); its result is .originalCenter
_getOriginalCenter(e) ==
    IF e.originalCenter # Undefined THEN e
    ELSE [e EXCEPT !.originalCenter = OriginalCenterOf(e)]

IdentityMatrix == [xx |-> Num(1), xy |-> Zero, yx |-> Zero, yy |-> Num(1), x0 |-> Zero, y0 |-> Zero]

\* Pango.Matrix.transform_point
transform_point(m, p) ==
    <<Add(Add(Mul(m.xx, p[1]), Mul(m.xy, p[2])), m.x0),
      Add(Add(Mul(m.yx, p[1]), Mul(m.yy, p[2])), m.y0)>>

\* Pango.Matrix.translate: the new origin is the image of (tx, ty)
MoveOrigin(m, origin) == [m EXCEPT !.x0 = origin[1], !.y0 = origin[2]]

translate(m, tx, ty) == MoveOrigin(m, transform_point(m, <<tx, ty>>))

\* cos^2 and sin*cos of an angle, where they are rational
Cos2(a) == IF a[1] = "acos" THEN Q(a[3] * a[3], a[3] * a[3] + a[4] * a[4])
           ELSE Q(a[4] * a[4], a[3] * a[3] + a[4] * a[4])

Sin2(a) == Sub(Num(1), Cos2(a))

SinCos(a) == Q(a[2] * a[3] * a[4], a[3] * a[3] + a[4] * a[4])

\* the linear map R(angle) . diag(sx, sy) . R(-angle), as <<lxx, lxy, lyy>>:
\* sx cos^2 + sy sin^2, (sx - sy) sin cos and sx sin^2 + sy cos^2
Conjugated(c2, s2, sc, sx, sy) ==
    <<Add(Mul(Num(sx), c2), Mul(Num(sy), s2)),
      Mul(Num(sx - sy), sc),
      Add(Mul(Num(sx), s2), Mul(Num(sy), c2))>>

\* m . l for the symmetric linear map l = <<lxx, lxy, lyy>>
RightMultiply(m, l) ==
    [m EXCEPT !.xx = Add(Mul(m.xx, l[1]), Mul(m.xy, l[2])),
              !.xy = Add(Mul(m.xx, l[2]), Mul(m.xy, l[3])),
              !.yx = Add(Mul(m.yx, l[1]), Mul(m.yy, l[2])),
              !.yy = Add(Mul(m.yx, l[2]), Mul(m.yy, l[3]))]

\* matrix.rotate(-angle * RADIAN); matrix.scale(sx, sy); matrix.rotate(angle * RADIAN)
\* with sx, sy in {1, -1}: the three right-multiplications compose to the
\* linear map R(angle) . diag(sx, sy) . R(-angle)
rotateScaleRotate(m, angle, sx, sy) ==
    RightMultiply(m, Conjugated(Cos2(angle), Sin2(angle), SinCos(angle), sx, sy))

\* the Reflection and Inversion branch of the forEach of
\* _getTransformedCenter, after its first translate
Mirror(m, t) ==
    translate(rotateScaleRotate(m, t.angle, t.scaleX[1], t.scaleY[1]),
              Neg(t.slideX), Neg(t.slideY))

\* the variant of ApplyToMatrix in which a Translation preserves the center
ApplyToMatrixWithoutSlides(m, t) ==
    IF t.type = REFLECTION \/ t.type = INVERSION
        THEN Mirror(translate(m, t.slideX, t.slideY), t)
    ELSE m

\* one step of the forEach of _getTransformedCenter
ApplyToMatrix(m, t) ==
    IF t.type = TRANSLATION THEN translate(m, t.slideX, t.slideY)
    ELSE IF t.type = REFLECTION \/ t.type = INVERSION
        THEN Mirror(translate(m, t.slideX, t.slideY), t)
    ELSE m

\* the forEach over transformations.slice(0, k).reverse(): the record at k
\* is applied to the matrix first, the oldest last
RECURSIVE FoldMatrix(_, _, _)
FoldMatrix(m, transformations, k) ==
    IF k = 0 THEN m
    ELSE FoldMatrix(ApplyToMatrix(m, transformations[k]), transformations, k - 1)

MatrixBefore(transformations, k) == FoldMatrix(IdentityMatrix, transformations, k)

\* the value _getTransformedCenter computes for the record at 1-based index i
\* from an original center
TransformedCenterOf(transformations, i, originalCenter) ==
    transform_point(MatrixBefore(transformations, i - 1), originalCenter)

TransformedCenterFaults(e, i) ==
    /\ ~Has(e.transformations[i], "elementTransformedCenter")
    /\ OriginalCenterFaults(e)

\* transformation.elementTransformedCenter = matrix.transform_point(..), on
\* the element e1 that holds its original center
CacheTransformedCenter(e1, i) ==
    [e1 EXCEPT !.transformations[i] =
        Put(@, "elementTransformedCenter",
            TransformedCenterOf(e1.transformations, i, e1.originalCenter))]

\* the element after _getTransformedCenter(transformations[i]); its result is
\* transformations[i].elementTransformedCenter
_getTransformedCenter(e, i) ==
    IF Has(e.transformations[i], "elementTransformedCenter") THEN e
    ELSE CacheTransformedCenter(_getOriginalCenter(e), i)

\* ------------------------------------------------------------------------
\* The point-acquisition builder
\* ------------------------------------------------------------------------

Midpoint(p, q) ==
    <<Div(Add(p[1], q[1]), Num(2)), Div(Add(p[2], q[2]), Num(2))>>

\* the variant of _smooth that averages the point with its successor only
_smoothWithNext(points, i) ==
    IF i < 2 THEN points
    ELSE SetAt(points, i - 1, Midpoint(points[i], points[i+1]))

_smooth(points, i) ==
    IF i < 2 THEN points
    ELSE SetAt(points, i - 1, Midpoint(points[i-1], points[i+1]))

startDrawing(e, startX, startY) ==
    [e EXCEPT !.points =
        IF e.shape = POLYGON \/ e.shape = POLYLINE
        THEN @ \o <<<<startX, startY>>, <<startX, startY>>>>
        ELSE Append(@, <<startX, startY>>)]

\* the live rotation written to transformations[0]
LiveRotation(e, angle) ==
    [e EXCEPT !.transformations =
        SetAt(e.transformations, 0, [type |-> ROTATION, angle |-> angle])]

\* the rotation of a rectangle or a polygon about its center, from the last
\* point to the pointer; e1 holds the original center
RotateFromLastPoint(e1, last, x, y) ==
    LiveRotation(e1, getAngle(e1.originalCenter[1], e1.originalCenter[2],
                              last[1], last[2], x, y))

\* the rotation of an ellipse about its center, from the horizontal to the
\* pointer; e1 holds the original center
RotateFromHorizontal(e1, x, y) ==
    LiveRotation(e1, getAngle(e1.originalCenter[1], e1.originalCenter[2],
                              Add(e1.originalCenter[1], Num(1)), e1.originalCenter[2],
                              x, y))

\* the text is moved by the displacement of its second point
SlideText(points, x, y) ==
    <<<<Add(points[1][1], Sub(x, points[2][1])), Add(points[1][2], Sub(y, points[2][2]))>>,
      <<x, y>>>>

\* updateDrawing past its first test; transform is the modifier or the
\* presence of a transformation
UpdateShape(e, x, y, transform) ==
    IF e.shape = NONE THEN
        [e EXCEPT !.points = IF transform THEN _smooth(Append(@, <<x, y>>), Len(@))
                             ELSE Append(@, <<x, y>>)]
    ELSE IF e.shape \in {RECTANGLE, POLYGON, POLYLINE} /\ transform THEN
        IF Len(e.points) < 2 THEN e
        ELSE RotateFromLastPoint(_getOriginalCenter(e), Last(e.points), x, y)
    ELSE IF e.shape = ELLIPSE /\ transform THEN
        IF Len(e.points) < 2 THEN e
        ELSE RotateFromHorizontal(
                 _getOriginalCenter([e EXCEPT !.points = SetAt(@, 2, <<x, y>>)]), x, y)
    ELSE IF e.shape = POLYGON \/ e.shape = POLYLINE THEN
        [e EXCEPT !.points = SetAt(@, Len(@) - 1, <<x, y>>)]
    ELSE IF e.shape = TEXT /\ transform THEN
        IF Len(e.points) < 2 THEN e
        ELSE [e EXCEPT !.points = SlideText(@, x, y) \o SubSeq(@, 3, Len(@))]
    ELSE [e EXCEPT !.points = SetAt(@, 1, <<x, y>>)]

updateDrawing(e, x, y, transformParam) ==
    IF x = Last(e.points)[1] /\ y = Last(e.points)[2] THEN e
    ELSE UpdateShape(e, x, y, transformParam \/ Len(e.transformations) >= 1)

addPoint(e) ==
    IF e.shape = POLYGON \/ e.shape = POLYLINE THEN
        IF ~getNearness(e.points[Len(e.points) - 1], Last(e.points), MIN_DRAWING_SIZE)
        THEN [e EXCEPT !.points = Append(@, Last(@))]
        ELSE e
    ELSE IF e.shape = LINE THEN
        IF Len(e.points) = 2 THEN [e EXCEPT !.points = SetAt(@, 2, @[2])]
        ELSE IF Len(e.points) = 3
            THEN [e EXCEPT !.points = SetAt(SetAt(@, 3, @[3]), 2, @[2])]
        ELSE e
    ELSE e

\* the variant of DropClick that treats a Freehand stroke like the others
DropClickOfAnyShape(shape, points) ==
    IF Len(points) >= 2
       /\ getNearness(points[Len(points) - 1], Last(points), MIN_DRAWING_SIZE)
    THEN Front(points) ELSE points

\* this.points.pop() of stopDrawing
DropClick(shape, points) ==
    IF shape # NONE /\ Len(points) >= 2
       /\ getNearness(points[Len(points) - 1], Last(points), MIN_DRAWING_SIZE)
    THEN Front(points) ELSE points

\* this.transformations.shift() of stopDrawing
DropSmallRotation(ts) ==
    IF Len(ts) >= 1 /\ ts[1].type = ROTATION /\ AbsBelowMinRotation(ts[1].angle)
    THEN Tail(ts) ELSE ts

stopDrawing(e) ==
    [e EXCEPT !.points = DropClick(e.shape, @),
              !.transformations = DropSmallRotation(@)]

\* ------------------------------------------------------------------------
\* The transformation builder
\* ------------------------------------------------------------------------

\* Math.PI + Math.atan(y / (x || 1))
InversionAngle(x, y) == PiPlusAtan(Div(y, IF Truthy(x) THEN x ELSE Num(1)))

\* the record startTransformation pushes
NewTransformation(startX, startY, type) ==
    IF type = TRANSLATION
        THEN [startX |-> startX, startY |-> startY, type |-> type,
              slideX |-> Zero, slideY |-> Zero]
    ELSE IF type = ROTATION
        THEN [startX |-> startX, startY |-> startY, type |-> type,
              angle |-> ZeroAngle]
    ELSE IF type = SCALE_PRESERVE \/ type = STRETCH
        THEN [startX |-> startX, startY |-> startY, type |-> type,
              scaleX |-> One, scaleY |-> One, angle |-> ZeroAngle]
    ELSE IF type = REFLECTION
        THEN [startX |-> startX, startY |-> startY,
              endX |-> startX, endY |-> startY, type |-> type,
              scaleX |-> One, scaleY |-> One,
              slideX |-> Zero, slideY |-> Zero, angle |-> ZeroAngle]
    ELSE [startX |-> startX, startY |-> startY,
          endX |-> startX, endY |-> startY, type |-> type,
          scaleX |-> MinusOne, scaleY |-> MinusOne,
          slideX |-> startX, slideY |-> startY,
          angle |-> InversionAngle(startX, startY)]

startTransformation(e, startX, startY, type) ==
    [e EXCEPT !.transformations = Append(@, NewTransformation(startX, startY, type)),
              !.showSymmetryElement =
                  IF type = REFLECTION \/ type = INVERSION THEN TRUE ELSE @]

\* |cos| >= cos(STRETCH_TOLERANCE) = cos(pi/8), from q = cos^2:
\* cos^2(pi/8) = (2 + sqrt 2) / 4, so q >= cos^2(pi/8) iff 4q - 2 >= sqrt 2
AtLeastSqrt2(v) == Le(Zero, v) /\ Le(Num(2), Mul(v, v))

AtLeastCosPi8(q) == AtLeastSqrt2(Sub(Mul(Num(4), q), Num(2)))

\* Math.abs(Math.sin(startAngle)) >= Math.sin(Math.PI / 2 - STRETCH_TOLERANCE)
StretchVertical(startAngle) ==
    startAngle[1] = "acos" /\ AtLeastCosPi8(Sin2(startAngle))

\* Math.abs(Math.cos(startAngle)) >= Math.cos(STRETCH_TOLERANCE)
StretchHorizontal(startAngle) ==
    startAngle[1] = "acos" /\ AtLeastCosPi8(Cos2(startAngle))

\* the variant of MirrorAlongAxis with the two axes exchanged
MirrorAlongAxisExchanged(t, horizontal) ==
    IF horizontal
    THEN [t EXCEPT !.scaleX = MinusOne, !.scaleY = One,
                   !.slideX = t.startX, !.slideY = Zero, !.angle = PiAngle]
    ELSE [t EXCEPT !.scaleX = One, !.scaleY = MinusOne,
                   !.slideX = Zero, !.slideY = t.startY, !.angle = PiAngle]

\* the mirror about the horizontal or the vertical through start
MirrorAlongAxis(t, horizontal) ==
    IF horizontal
    THEN [t EXCEPT !.scaleX = One, !.scaleY = MinusOne,
                   !.slideX = Zero, !.slideY = t.startY, !.angle = PiAngle]
    ELSE [t EXCEPT !.scaleX = MinusOne, !.scaleY = One,
                   !.slideX = t.startX, !.slideY = Zero, !.angle = PiAngle]

\* the mirror about the line of slope tan = dy/dx through start
MirrorAlongSlope(t, tan) ==
    [t EXCEPT !.scaleX = One, !.scaleY = MinusOne,
              !.slideX = Zero, !.slideY = Sub(t.startY, Mul(t.startX, tan)),
              !.angle = PiPlusAtan(tan)]

\* the mirror about the line of inverse slope tan = dx/dy through start;
\* Math.PI - Math.atan(tan): atan is odd
MirrorAlongInverseSlope(t, tan) ==
    [t EXCEPT !.scaleX = MinusOne, !.scaleY = One,
              !.slideX = Sub(t.startX, Mul(t.startY, tan)), !.slideY = Zero,
              !.angle = PiPlusAtan(Neg(tan))]

\* the Reflection branch of updateTransformation, after endX and endY are
\* written: dx = x - startX, dy = y - startY
ReflectAlong(t, dx, dy, near) ==
    IF near THEN t
    ELSE IF Le(Abs(dy), Num(REFLECTION_TOLERANCE)) /\ Lt(Num(REFLECTION_TOLERANCE), Abs(dx))
        THEN MirrorAlongAxis(t, TRUE)
    ELSE IF Le(Abs(dx), Num(REFLECTION_TOLERANCE)) /\ Lt(Num(REFLECTION_TOLERANCE), Abs(dy))
        THEN MirrorAlongAxis(t, FALSE)
    ELSE IF dx # Zero THEN MirrorAlongSlope(t, Div(dy, dx))
    ELSE IF dy # Zero THEN MirrorAlongInverseSlope(t, Div(dx, dy))
    ELSE t

\* the variant of UpdateReflection that recomputes the record from its start
\* on every call (no lock near the start)
UpdateReflectionResetting(t, x, y) ==
    ReflectAlong([NewTransformation(t.startX, t.startY, REFLECTION)
                     EXCEPT !.endX = x, !.endY = y],
                 Sub(x, t.startX), Sub(y, t.startY),
                 getNearness(<<t.startX, t.startY>>, <<x, y>>, MIN_REFLECTION_LINE_LENGTH))

UpdateReflection(t, x, y) ==
    ReflectAlong([t EXCEPT !.endX = x, !.endY = y],
                 Sub(x, t.startX), Sub(y, t.startY),
                 getNearness(<<t.startX, t.startY>>, <<x, y>>, MIN_REFLECTION_LINE_LENGTH))

UpdateInversion(t, x, y) ==
    [t EXCEPT !.endX = x, !.endY = y,
              !.scaleX = MinusOne, !.scaleY = MinusOne,
              !.slideX = x, !.slideY = y,
              !.angle = InversionAngle(x, y)]

\* the variant of UpdateTranslation that adds the displacement to the slide
\* (slideX += x - startX)
UpdateTranslationAdding(t, x, y) ==
    [t EXCEPT !.slideX = Add(@, Sub(x, t.startX)), !.slideY = Add(@, Sub(y, t.startY))]

UpdateTranslation(t, x, y) ==
    [t EXCEPT !.slideX = Sub(x, t.startX), !.slideY = Sub(y, t.startY)]

\* Math.hypot(x - center[0], y - center[1])
\*   / Math.hypot(startX - center[0], startY - center[1]) || 1
ScaleAbout(center, t, x, y) ==
    ScaleOrOne(Hypot2(Sub(x, center[1]), Sub(y, center[2])),
               Hypot2(Sub(t.startX, center[1]), Sub(t.startY, center[2])))

\* getAngle(center[0], center[1], center[0] + 1, center[1], x, y)
AngleFromHorizontal(center, x, y) ==
    getAngle(center[1], center[2], Add(center[1], Num(1)), center[2], x, y)

\* the variant of Stretch that scales both axes when the axis is neither
\* vertical nor horizontal
StretchBothAxes(t, center, x, y, scale, vertical, horizontal) ==
    [t EXCEPT !.scaleX = IF vertical THEN One ELSE scale,
              !.scaleY = IF horizontal /\ ~vertical THEN One ELSE scale,
              !.angle = IF vertical \/ horizontal THEN ZeroAngle
                        ELSE AngleFromHorizontal(center, x, y)]

\* the Stretch branch, from its scale and the tests on startAngle
Stretch(t, center, x, y, scale, vertical, horizontal) ==
    [t EXCEPT !.scaleX = IF vertical THEN One ELSE scale,
              !.scaleY = IF ~vertical THEN One ELSE scale,
              !.angle = IF vertical \/ horizontal THEN ZeroAngle
                        ELSE AngleFromHorizontal(center, x, y)]

StretchFrom(t, center, x, y, startAngle) ==
    Stretch(t, center, x, y, ScaleAbout(center, t, x, y),
            StretchVertical(startAngle), StretchHorizontal(startAngle))

Scale(t, scale) == [t EXCEPT !.scaleX = scale, !.scaleY = scale]

\* the Rotation, ScalePreserve and Stretch branches: t is the last record
\* and center the result of _getTransformedCenter(t)
UpdateAbout(t, center, x, y) ==
    IF t.type = ROTATION
        THEN [t EXCEPT !.angle = getAngle(center[1], center[2], t.startX, t.startY, x, y)]
    ELSE IF t.type = SCALE_PRESERVE
        THEN Scale(t, ScaleAbout(center, t, x, y))
    ELSE StretchFrom(t, center, x, y, AngleFromHorizontal(center, t.startX, t.startY))

\* e1 is the element after _getTransformedCenter(lastTransformation)
UpdateCentered(e1, x, y) ==
    [e1 EXCEPT !.transformations[Len(e1.transformations)] =
        UpdateAbout(@, @.elementTransformedCenter, x, y)]

UpdateLast(t, x, y) ==
    IF t.type = TRANSLATION THEN UpdateTranslation(t, x, y)
    ELSE IF t.type = REFLECTION THEN UpdateReflection(t, x, y)
    ELSE UpdateInversion(t, x, y)

\* updateTransformation on the last record
updateTransformation(e, x, y) ==
    IF Last(e.transformations).type \in {ROTATION, SCALE_PRESERVE, STRETCH}
    THEN UpdateCentered(_getTransformedCenter(e, Len(e.transformations)), x, y)
    ELSE [e EXCEPT !.transformations[Len(e.transformations)] = UpdateLast(@, x, y)]

\* updateTransformation throws where _getTransformedCenter does, before any
\* assignment to the record
updateTransformationFaults(e) ==
    /\ Last(e.transformations).type \in {ROTATION, SCALE_PRESERVE, STRETCH}
    /\ TransformedCenterFaults(e, Len(e.transformations))

\* the variant of the discard test without its Rotation clause
DiscardedKeepingRotations(t) ==
    \/ /\ t.type = REFLECTION
       /\ getNearness(<<t.startX, t.startY>>, <<t.endX, t.endY>>, MIN_REFLECTION_LINE_LENGTH)
    \/ /\ t.type = TRANSLATION
       /\ Lt(Hypot2(t.slideX, t.slideY), Num(MIN_TRANSLATION_DISTANCE * MIN_TRANSLATION_DISTANCE))

\* the discard test of stopTransformation
Discarded(t) ==
    \/ /\ t.type = REFLECTION
       /\ getNearness(<<t.startX, t.startY>>, <<t.endX, t.endY>>, MIN_REFLECTION_LINE_LENGTH)
    \/ /\ t.type = TRANSLATION
       /\ Lt(Hypot2(t.slideX, t.slideY), Num(MIN_TRANSLATION_DISTANCE * MIN_TRANSLATION_DISTANCE))
    \/ /\ t.type = ROTATION
       /\ AbsBelowMinRotation(t.angle)

\* the variant of Finish that deletes startX and startY only
FinishKeepingEnd(transformations) ==
    IF Discarded(Last(transformations)) THEN Front(transformations)
    ELSE [transformations EXCEPT ![Len(transformations)] =
             Delete(@, {"startX", "startY"})]

\* lastTransformation after stopTransformation: popped, or without its
\* transient fields
Finish(transformations) ==
    IF Discarded(Last(transformations)) THEN Front(transformations)
    ELSE [transformations EXCEPT ![Len(transformations)] =
             Delete(@, {"startX", "startY", "endX", "endY"})]

stopTransformation(e) ==
    [e EXCEPT !.showSymmetryElement =
                  IF Last(e.transformations).type \in {REFLECTION, INVERSION}
                  THEN FALSE ELSE @,
              !.transformations = Finish(@)]

\* ------------------------------------------------------------------------
\* The path emitters.  A transform operation is a record [op, ...]; the
\* render path gives rotate() radians, the markup gives rotate() degrees.
\* ------------------------------------------------------------------------

\* angle * RADIAN, the angle in degrees (RADIAN = 180 / Math.PI)
TimesRADIAN(a) == IF a[1] = "*pi/180" THEN a[2] ELSE <<"*180/pi", a>>

\* the radians of an angle given in degrees
DegreesToRadians(a) == IF a[1] = "*180/pi" THEN a[2] ELSE <<"*pi/180", a>>

OpTranslate(x, y) == [op |-> "translate", x |-> x, y |-> y]

OpRotate(a) == [op |-> "rotate", angle |-> a]

OpScale(sx, sy) == [op |-> "scale", sx |-> sx, sy |-> sy]

\* the result of _getTransformedCenter(transformations[i])
CenterValue(e, i) == _getTransformedCenter(e, i).transformations[i].elementTransformedCenter

\* the body of the forEach of buildCairo for the record at index i
CairoOpsOf(e, i) ==
    LET t == e.transformations[i]
        center == CenterValue(e, i)
    IN  IF t.type = TRANSLATION THEN <<OpTranslate(t.slideX, t.slideY)>>
        ELSE IF t.type = ROTATION THEN
            <<OpTranslate(center[1], center[2]), OpRotate(t.angle),
              OpTranslate(Neg(center[1]), Neg(center[2]))>>
        ELSE IF t.type = SCALE_PRESERVE \/ t.type = STRETCH THEN
            <<OpTranslate(center[1], center[2]), OpRotate(t.angle),
              OpScale(t.scaleX, t.scaleY), OpRotate(NegAngle(t.angle)),
              OpTranslate(Neg(center[1]), Neg(center[2]))>>
        ELSE IF t.type = REFLECTION \/ t.type = INVERSION THEN
            <<OpTranslate(t.slideX, t.slideY), OpRotate(t.angle),
              OpScale(t.scaleX, t.scaleY), OpRotate(NegAngle(t.angle)),
              OpTranslate(Neg(t.slideX), Neg(t.slideY))>>
        ELSE <<>>

\* the body of the forEach of buildSVG for the record at index i: the
\* functions of the transform attribute, in the order written
SvgOpsOf(e, i) ==
    LET t == e.transformations[i]
        center == CenterValue(e, i)
    IN  IF t.type = TRANSLATION THEN <<OpTranslate(t.slideX, t.slideY)>>
        ELSE IF t.type = ROTATION THEN
            <<OpTranslate(center[1], center[2]), OpRotate(TimesRADIAN(t.angle)),
              OpTranslate(Neg(center[1]), Neg(center[2]))>>
        ELSE IF t.type = SCALE_PRESERVE \/ t.type = STRETCH THEN
            <<OpTranslate(center[1], center[2]), OpRotate(TimesRADIAN(t.angle)),
              OpScale(t.scaleX, t.scaleY), OpRotate(TimesRADIAN(NegAngle(t.angle))),
              OpTranslate(Neg(center[1]), Neg(center[2]))>>
        ELSE IF t.type = REFLECTION \/ t.type = INVERSION THEN
            <<OpTranslate(t.slideX, t.slideY), OpRotate(TimesRADIAN(t.angle)),
              OpScale(t.scaleX, t.scaleY), OpRotate(TimesRADIAN(NegAngle(t.angle))),
              OpTranslate(Neg(t.slideX), Neg(t.slideY))>>
        ELSE <<>>

\* transformations.slice(0).reverse().forEach(..) of buildCairo, from the
\* record at index k down to the oldest
RECURSIVE CairoOpsFrom(_, _)
CairoOpsFrom(e, k) ==
    IF k = 0 THEN <<>> ELSE CairoOpsOf(e, k) \o CairoOpsFrom(e, k - 1)

cairoTransformOps(e) == CairoOpsFrom(e, Len(e.transformations))

RECURSIVE SvgOpsFrom(_, _)
SvgOpsFrom(e, k) ==
    IF k = 0 THEN <<>> ELSE SvgOpsOf(e, k) \o SvgOpsFrom(e, k - 1)

\* the variant of svgTransformOps without reverse(): from the oldest record
\* to the most recent
RECURSIVE SvgOpsUpTo(_, _)
SvgOpsUpTo(e, k) ==
    IF k = 0 THEN <<>> ELSE SvgOpsUpTo(e, k - 1) \o SvgOpsOf(e, k)

svgTransformOpsOldestFirst(e) == SvgOpsUpTo(e, Len(e.transformations))

svgTransformOps(e) == SvgOpsFrom(e, Len(e.transformations))

\* buildCairo asks the center of the rotations and scalings only
CairoNeedsCenter(t) == t.type \in {ROTATION, SCALE_PRESERVE, STRETCH}

\* the element after the forEach: the centers asked for are now cached
RECURSIVE CairoCache(_, _)
CairoCache(e, k) ==
    IF k = 0 THEN e
    ELSE CairoCache(IF CairoNeedsCenter(e.transformations[k])
                    THEN _getTransformedCenter(e, k) ELSE e, k - 1)

\* buildSVG asks the center of every record
RECURSIVE SvgCache(_, _)
SvgCache(e, k) ==
    IF k = 0 THEN e ELSE SvgCache(_getTransformedCenter(e, k), k - 1)

CairoTransformFaults(e) ==
    \E i \in 1..Len(e.transformations) :
        CairoNeedsCenter(e.transformations[i]) /\ TransformedCenterFaults(e, i)

SvgTransformFaults(e) ==
    \E i \in 1..Len(e.transformations) : TransformedCenterFaults(e, i)

\* What an emitter draws: nothing, or one shape with the points it reads.
\* kind is the geometry: "path" (open polyline), "closed" (closed polyline),
\* "curve" (cubic Bezier), "ellipse", "rect", "text".
NoShape == [emitted |-> FALSE, kind |-> "", pts |-> <<>>]

Shape(kind, pts) == [emitted |-> TRUE, kind |-> kind, pts |-> pts]

\* the shape section of buildCairo throws when it reads points[0] of an
\* empty list
CairoShapeFaults(e) ==
    /\ e.shape = NONE \/ e.shape = LINE
    /\ Len(e.points) = 0

cairoShape(e) ==
    LET points == e.points
        shape == e.shape
        n == Len(points)
    IN  IF shape = LINE /\ n = 3
            THEN Shape("curve", <<points[1], points[1], points[2], points[3]>>)
        ELSE IF shape = LINE /\ n = 4
            THEN Shape("curve", <<points[1], points[2], points[3], points[4]>>)
        ELSE IF shape = NONE \/ shape = LINE
            THEN Shape("path", points)
        ELSE IF shape = ELLIPSE /\ n >= 2
            THEN Shape("ellipse", IF n >= 3 THEN SubSeq(points, 1, 3) ELSE points)
        ELSE IF shape = RECTANGLE /\ n = 2
            THEN Shape("rect", points)
        ELSE IF (shape = POLYGON \/ shape = POLYLINE) /\ n >= 2
            THEN Shape(IF shape = POLYGON THEN "closed" ELSE "path", points)
        ELSE IF shape = TEXT /\ n = 2
            THEN Shape("text", points)
        ELSE NoShape

\* the points of buildSVG, rounded to 2 decimals
SvgPoints(e) ==
    [i \in 1..Len(e.points) |-> <<Round2(e.points[i][1]), Round2(e.points[i][2])>>]

\* the shape section of buildSVG throws when it reads a missing point
SvgShapeFaults(e) ==
    \/ e.shape = LINE /\ Len(e.points) < 2
    \/ e.shape = NONE /\ Len(e.points) = 0

svgShape(e) ==
    LET points == SvgPoints(e)
        shape == e.shape
        n == Len(points)
    IN  IF shape = LINE /\ n = 4
            THEN Shape("curve", <<points[1], points[2], points[3], points[4]>>)
        ELSE IF shape = LINE /\ n = 3
            THEN Shape("curve", <<points[1], points[1], points[2], points[3]>>)
        ELSE IF shape = LINE
            THEN Shape("path", <<points[1], points[2]>>)
        ELSE IF shape = NONE
            THEN Shape("path", points)
        ELSE IF shape = ELLIPSE /\ n = 3
            THEN Shape("ellipse", points)
        ELSE IF shape = ELLIPSE /\ n = 2
            THEN Shape("ellipse", points)
        ELSE IF shape = RECTANGLE /\ n = 2
            THEN Shape("rect", points)
        ELSE IF shape = POLYGON /\ n >= 3
            THEN Shape("closed", points)
        ELSE IF shape = POLYLINE /\ n >= 2
            THEN Shape("path", points)
        ELSE IF shape = TEXT /\ n = 2
            THEN Shape("text", points)
        ELSE NoShape

\* buildCairo: whether it throws, and the element it leaves.  The symmetry
\* indicator is drawn first and reads lastTransformation; the text layout
\* measures textWidth (the measured width w comes from the font).
buildCairoFaults(e) ==
    \/ e.showSymmetryElement /\ Len(e.transformations) = 0
    \/ CairoTransformFaults(e)
    \/ CairoShapeFaults(e)

\* this.textWidth = layout.get_pixel_size()[0]
MeasureText(e, w) ==
    IF e.shape = TEXT /\ Len(e.points) = 2 THEN [e EXCEPT !.textWidth = w] ELSE e

buildCairo(e, w) ==
    IF (e.showSymmetryElement /\ Len(e.transformations) = 0) \/ CairoTransformFaults(e)
    THEN e
    ELSE MeasureText(CairoCache(e, Len(e.transformations)), w)

buildSVGFaults(e) == SvgTransformFaults(e) \/ SvgShapeFaults(e)

buildSVG(e) ==
    IF SvgTransformFaults(e) THEN e ELSE SvgCache(e, Len(e.transformations))

\* ------------------------------------------------------------------------
\* The persisted record
\* ------------------------------------------------------------------------

toJSON(e) ==
    [shape |-> e.shape,
     transformations |-> e.transformations,
     lineIndex |-> e.lineIndex,
     points |-> SvgPoints(e)]

\* params.transform[f] || 0
OrZero(transform, f) ==
    IF Has(transform, f) /\ Truthy(transform[f]) THEN transform[f] ELSE Zero

\* the variant of LegacyRotation that pushes a rotation of any angle
LegacyRotationOfAnyAngle(transformations, hasCenter, angle) ==
    IF hasCenter
    THEN Append(transformations, [type |-> ROTATION, angle |-> <<"rad", 1, angle[1], angle[2]>>])
    ELSE transformations

\* this.transformations.push({ type: ROTATION, angle: angle }) of the legacy
\* transform
LegacyRotation(transformations, hasCenter, angle) ==
    IF hasCenter /\ Truthy(angle)
    THEN Append(transformations, [type |-> ROTATION, angle |-> <<"rad", 1, angle[1], angle[2]>>])
    ELSE transformations

\* the fake point that gives the ratio of a legacy ellipse
LegacyRatio(points, shape, ratio) ==
    IF shape = ELLIPSE /\ Truthy(ratio) /\ ratio # Num(1) /\ Len(points) >= 2
    THEN Append(points,
                <<Add(Mul(ratio, Sub(points[2][1], points[1][1])), points[1][1]),
                  Add(Mul(ratio, Sub(points[2][2], points[1][2])), points[1][2])>>)
    ELSE points

Element(shape, points, transformations, lineIndex) ==
    [shape |-> shape,
     points |-> points,
     transformations |-> transformations,
     showSymmetryElement |-> FALSE,
     originalCenter |-> Undefined,
     textWidth |-> 0,
     lineIndex |-> lineIndex]

\* new DrawingElement(params): params is a record with shape and points, and
\* possibly transformations, lineIndex and the legacy transform
\* {center, angle, startAngle, ratio} whose angles are plain numbers (radians)
_init(params) ==
    IF Has(params, "transform")
    THEN Element(params.shape,
                 LegacyRatio(params.points, params.shape, OrZero(params.transform, "ratio")),
                 LegacyRotation(IF Has(params, "transformations")
                                THEN params.transformations ELSE <<>>,
                                Has(params.transform, "center"),
                                Add(OrZero(params.transform, "angle"),
                                    OrZero(params.transform, "startAngle"))),
                 IF Has(params, "lineIndex") THEN params.lineIndex ELSE 0)
    ELSE Element(params.shape, params.points,
                 IF Has(params, "transformations") THEN params.transformations ELSE <<>>,
                 IF Has(params, "lineIndex") THEN params.lineIndex ELSE 0)


\* ------------------------------------------------------------------------
\* The state machine: one element and the caller that drives its builders
\* ------------------------------------------------------------------------

VARIABLES
    shape,                \* this.shape
    points,               \* this.points
    transformations,      \* this.transformations
    showSymmetryElement,  \* this.showSymmetryElement
    originalCenter,       \* this._originalCenter
    textWidth,            \* this.textWidth (0: not measured)
    lineIndex,            \* this.lineIndex
    phase,                \* the caller: "new", "drawing", "idle", "transforming"
    call,                 \* history: the last builder call and its arguments
    before                \* history: the transformation list when begin() was called

vars == <<shape, points, transformations, showSymmetryElement, originalCenter,
          textWidth, lineIndex, phase, call, before>>

this == [shape |-> shape, points |-> points, transformations |-> transformations,
         showSymmetryElement |-> showSymmetryElement,
         originalCenter |-> originalCenter, textWidth |-> textWidth,
         lineIndex |-> lineIndex]

Become(e) ==
    /\ shape' = e.shape
    /\ points' = e.points
    /\ transformations' = e.transformations
    /\ showSymmetryElement' = e.showSymmetryElement
    /\ originalCenter' = e.originalCenter
    /\ textWidth' = e.textWidth
    /\ lineIndex' = e.lineIndex

\* Bounds of the model
MaxPoints == 3
MaxTransformations == 2
MaxCoordinate == 24
MaxSavedPoints == 2

\* pointer positions the caller delivers while the element is drawn
DrawSamples ==
    { <<Num(0), Num(0)>>, <<Num(2), Num(2)>>, <<Num(12), Num(0)>>, <<Num(0), Num(12)>> }

\* pointer positions the caller delivers to a gesture
Samples ==
    { <<Num(0), Num(0)>>, <<Num(12), Num(0)>>, <<Num(0), Num(12)>> }

InRange(ps) ==
    \A i \in 1..Len(ps) :
        /\ Le(Abs(ps[i][1]), Num(MaxCoordinate))
        /\ Le(Abs(ps[i][2]), Num(MaxCoordinate))

\* the element stays in the window of the model
BecomeInRange(e) == InRange(e.points) /\ Become(e)

ShapeKinds == {NONE, LINE, ELLIPSE, RECTANGLE, TEXT, POLYGON, POLYLINE}

TransformationKinds == {TRANSLATION, ROTATION, SCALE_PRESERVE, STRETCH, REFLECTION, INVERSION}

\* widths the text layout can measure
TextWidths == {0, 7}

\* again: the call repeats the pointer position of the call before it
Call(op, x, y) == [op |-> op, x |-> x, y |-> y, again |-> FALSE]

\* the element the caller creates when a drag begins
Is(e) ==
    /\ shape = e.shape
    /\ points = e.points
    /\ transformations = e.transformations
    /\ showSymmetryElement = e.showSymmetryElement
    /\ originalCenter = e.originalCenter
    /\ textWidth = e.textWidth
    /\ lineIndex = e.lineIndex

Init ==
    /\ \E k \in ShapeKinds, li \in {0, 1} :
          /\ k # TEXT => li = 0
          /\ Is(_init([shape |-> k, points |-> <<>>, lineIndex |-> li]))
    /\ phase = "new"
    /\ call = Call("new", Zero, Zero)
    /\ before = <<>>

StartDrawing ==
    /\ phase = "new"
    /\ \E p \in DrawSamples : Become(startDrawing(this, p[1], p[2]))
    /\ phase' = "drawing"
    /\ call' = Call("startDrawing", Zero, Zero)
    /\ UNCHANGED before

UpdateDrawing ==
    /\ phase = "drawing"
    /\ shape = NONE => Len(points) < MaxPoints
    /\ \E p \in DrawSamples, transform \in BOOLEAN :
          BecomeInRange(updateDrawing(this, p[1], p[2], transform))
    /\ call' = Call("updateDrawing", Zero, Zero)
    /\ UNCHANGED <<phase, before>>

AddPoint ==
    /\ phase = "drawing"
    /\ shape \in {POLYGON, POLYLINE} => Len(points) < MaxPoints
    /\ Become(addPoint(this))
    /\ call' = Call("addPoint", Zero, Zero)
    /\ UNCHANGED <<phase, before>>

StopDrawing ==
    /\ phase = "drawing"
    /\ Become(stopDrawing(this))
    /\ phase' = "idle"
    /\ call' = Call("stopDrawing", Zero, Zero)
    /\ UNCHANGED before

StartTransformation ==
    /\ phase = "idle"
    /\ Len(transformations) < MaxTransformations
    /\ \E p \in Samples, type \in TransformationKinds :
          /\ Become(startTransformation(this, p[1], p[2], type))
          /\ call' = Call("startTransformation", p[1], p[2])
    /\ phase' = "transforming"
    /\ before' = transformations

\* a call that throws leaves the element as it was
UpdateTransformation ==
    /\ phase = "transforming"
    /\ \E p \in Samples :
          /\ Become(IF updateTransformationFaults(this) THEN this
                    ELSE updateTransformation(this, p[1], p[2]))
          /\ call' = [Call("updateTransformation", p[1], p[2])
                        EXCEPT !.again = /\ call.op = "updateTransformation"
                                         /\ call.x = p[1] /\ call.y = p[2]]
    /\ UNCHANGED <<phase, before>>

StopTransformation ==
    /\ phase = "transforming"
    /\ Become(stopTransformation(this))
    /\ phase' = "idle"
    /\ call' = Call("stopTransformation", Zero, Zero)
    /\ before' = <<>>

\* a repaint: buildCairo
Repaint ==
    /\ \E w \in IF shape = TEXT THEN TextWidths ELSE {0} : Become(buildCairo(this, w))
    /\ UNCHANGED <<phase, call, before>>

\* an export to markup: buildSVG
Export ==
    /\ Become(buildSVG(this))
    /\ UNCHANGED <<phase, call, before>>

\* a drawing is saved and read back: JSON.stringify calls toJSON, and the
\* element is constructed again from the record
Reload ==
    /\ phase = "idle"
    /\ Become(_init(toJSON(this)))
    /\ call' = Call("reload", Zero, Zero)
    /\ UNCHANGED <<phase, before>>

\* The drawing of one element, from its construction to the end of the drag
Next ==
    \/ StartDrawing
    \/ UpdateDrawing
    \/ AddPoint
    \/ StopDrawing
    \/ Repaint
    \/ Export

Spec == Init /\ [][Next]_vars

\* The gestures on an element that has been drawn.  Drawn(k, p, q, r) is the
\* element of shape k after startDrawing(p), updateDrawing(q), a second
\* updateDrawing(r) with the transform modifier held when r is not q, and
\* stopDrawing.
NewElement(k) == _init([shape |-> k, points |-> <<>>, lineIndex |-> 0])

Drawn(k, p, q, r) ==
    stopDrawing(updateDrawing(
        updateDrawing(startDrawing(NewElement(k), p[1], p[2]), q[1], q[2], FALSE),
        r[1], r[2], TRUE))

Gallery ==
    { Drawn(RECTANGLE, <<Num(2), Num(2)>>, <<Num(12), Num(0)>>, <<Num(12), Num(0)>>),
      Drawn(ELLIPSE, <<Num(0), Num(0)>>, <<Num(12), Num(0)>>, <<Num(0), Num(12)>>) }

InitGesture ==
    /\ \E e \in Gallery : Is(e)
    /\ phase = "idle"
    /\ call = Call("stopDrawing", Zero, Zero)
    /\ before = <<>>

NextGesture ==
    \/ StartTransformation
    \/ UpdateTransformation
    \/ StopTransformation
    \/ Repaint
    \/ Export

SpecGesture == InitGesture /\ [][NextGesture]_vars

\* The saved drawings.  A saved record holds points with more than two
\* decimals (a smoothed or a legacy drawing), possibly the legacy transform
\* of old versions, and the transformation list as it was in memory.
SavedCoordinates == { <<1, 8>>, <<-1, 8>>, <<1001, 200>> }

SavedPoints == SavedCoordinates \X SavedCoordinates

SavedPointLists ==
    UNION { [1..n -> SavedPoints] : n \in 0..MaxSavedPoints }

SavedTransformations ==
    { <<>>,
      <<[type |-> TRANSLATION, slideX |-> Num(12), slideY |-> <<1, 8>>],
        [type |-> ROTATION, angle |-> <<"acos", -1, 1, 2>>,
         elementTransformedCenter |-> <<Num(12), <<1, 8>>>>]>> }

LegacyTransforms ==
    { [center |-> <<Zero, Zero>>, angle |-> <<1, 2>>, startAngle |-> Zero, ratio |-> Num(1)],
      [center |-> <<Zero, Zero>>, angle |-> Zero, startAngle |-> Zero, ratio |-> Num(2)] }

SavedParams ==
    { [shape |-> k, points |-> ps, transformations |-> ts, lineIndex |-> 0] :
          k \in {NONE, ELLIPSE}, ps \in SavedPointLists, ts \in SavedTransformations }
    \cup
    { [shape |-> ELLIPSE, points |-> ps, transform |-> tr] :
          ps \in SavedPointLists, tr \in LegacyTransforms }

InitPersist ==
    /\ \E params \in SavedParams : Is(_init(params))
    /\ phase = "idle"
    /\ call = Call("new", Zero, Zero)
    /\ before = <<>>

NextPersist == Reload

SpecPersist == InitPersist /\ [][NextPersist]_vars

\* One gesture on a drawn element, probed with start points and pointer
\* positions on the center of the element (the ellipse has its center at
\* (0,0), the rectangle at (7,1)), on the horizontal and the vertical through
\* it, and at 9 px and exactly 10 px from the start.
ProbeStarts ==
    { <<Num(0), Num(0)>>, <<Num(7), Num(1)>>, <<Num(12), Num(0)>>,
      <<Num(0), Num(12)>>, <<Num(6), Num(8)>> }

ProbePointers ==
    { <<Num(0), Num(0)>>, <<Num(7), Num(1)>>, <<Num(10), Num(0)>>, <<Num(0), Num(10)>>,
      <<Num(9), Num(0)>>, <<Num(6), Num(8)>>, <<Num(12), Num(3)>>, <<Num(3), Num(12)>> }

InitProbe ==
    /\ \E e \in Gallery, p \in ProbeStarts, type \in TransformationKinds :
          /\ Is(startTransformation(e, p[1], p[2], type))
          /\ call = Call("startTransformation", p[1], p[2])
          /\ before = e.transformations
    /\ phase = "transforming"

ProbeTransformation ==
    /\ phase = "transforming"
    /\ \E p \in ProbePointers :
          /\ Become(IF updateTransformationFaults(this) THEN this
                    ELSE updateTransformation(this, p[1], p[2]))
          /\ call' = [Call("updateTransformation", p[1], p[2])
                        EXCEPT !.again = /\ call.op = "updateTransformation"
                                         /\ call.x = p[1] /\ call.y = p[2]]
    /\ UNCHANGED <<phase, before>>

NextProbe ==
    \/ ProbeTransformation
    \/ StopTransformation

SpecProbe == InitProbe /\ [][NextProbe]_vars

\* The intake of saved records, those of old versions included: the legacy
\* transform with and without a center, with a turn, with none, with angles
\* that cancel, with and without a ratio, on ellipses and on other shapes,
\* alone or beside a transformation list.  The call keeps the record.
IntakeTransforms ==
    LegacyTransforms \cup
    { [center |-> <<Zero, Zero>>, angle |-> <<1, 2>>, startAngle |-> <<1, 4>>, ratio |-> Num(2)],
      [center |-> <<Zero, Zero>>, angle |-> <<1, 2>>, startAngle |-> <<-1, 2>>],
      [angle |-> <<1, 2>>, startAngle |-> <<1, 4>>, ratio |-> Num(2)] }

IntakePointLists ==
    { <<>>,
      <<<<Num(0), Num(0)>>>>,
      <<<<Num(0), Num(0)>>, <<Num(4), Num(2)>>>>,
      <<<<Num(1), Num(1)>>, <<Num(4), Num(2)>>, <<Num(0), Num(3)>>>> }

IntakeParams ==
    { [shape |-> k, points |-> ps, transformations |-> ts, lineIndex |-> 0] :
          k \in {NONE, ELLIPSE}, ps \in IntakePointLists, ts \in SavedTransformations }
    \cup
    { [shape |-> k, points |-> ps, transform |-> tr] :
          k \in {NONE, ELLIPSE}, ps \in IntakePointLists, tr \in IntakeTransforms }
    \cup
    { [shape |-> k, points |-> ps, transformations |-> ts, transform |-> tr] :
          k \in {NONE, ELLIPSE}, ps \in IntakePointLists,
          ts \in SavedTransformations, tr \in IntakeTransforms }

InitIntake ==
    /\ \E params \in IntakeParams :
          /\ Is(_init(params))
          /\ call = Put(Call("new", Zero, Zero), "params", params)
    /\ phase = "idle"
    /\ before = <<>>

NextIntake == Reload

SpecIntake == InitIntake /\ [][NextIntake]_vars

\* A freehand stroke: the element is created empty, or read back with a
\* transformation, and the pointer positions of one drag are appended.  The
\* call records the position and the smoothing modifier of the update.
MaxStroke == 4

StrokeSamples ==
    { <<Num(0), Num(0)>>, <<Num(1), Num(1)>>, <<Num(2), Num(0)>>, <<Num(3), Num(3)>> }

StrokeTransformations ==
    { <<>>, <<[type |-> TRANSLATION, slideX |-> Num(1), slideY |-> Zero]>> }

InitStroke ==
    /\ \E ts \in StrokeTransformations :
          Is(_init([shape |-> NONE, points |-> <<>>, transformations |-> ts]))
    /\ phase = "new"
    /\ call = Call("new", Zero, Zero)
    /\ before = <<>>

StartStroke ==
    /\ phase = "new"
    /\ \E p \in StrokeSamples :
          /\ Become(startDrawing(this, p[1], p[2]))
          /\ call' = Call("startDrawing", p[1], p[2])
    /\ phase' = "drawing"
    /\ UNCHANGED before

Stroke ==
    /\ phase = "drawing"
    /\ Len(points) < MaxStroke
    /\ \E p \in StrokeSamples, transform \in BOOLEAN :
          /\ Become(updateDrawing(this, p[1], p[2], transform))
          /\ call' = Put(Call("updateDrawing", p[1], p[2]), "transform", transform)
    /\ UNCHANGED <<phase, before>>

NextStroke ==
    \/ StartStroke
    \/ Stroke
    \/ StopDrawing

SpecStroke == InitStroke /\ [][NextStroke]_vars

\* Drawing operations during one gesture on a drawn element: the builder
\* does not refuse a drawing call while a gesture is in progress.  A gesture
\* call on a list that is empty, or whose last record has lost its start, is
\* left out: begin() comes first.
MixedSamples == { <<Num(0), Num(0)>>, <<Num(12), Num(0)>> }

GestureInProgress ==
    /\ phase = "transforming"
    /\ Len(transformations) >= 1
    /\ Has(Last(transformations), "startX")

MixedUpdateTransformation ==
    /\ GestureInProgress
    /\ \E p \in MixedSamples :
          /\ Become(IF updateTransformationFaults(this) THEN this
                    ELSE updateTransformation(this, p[1], p[2]))
          /\ call' = Call("updateTransformation", p[1], p[2])
    /\ UNCHANGED <<phase, before>>

MixedStopTransformation ==
    /\ GestureInProgress
    /\ StopTransformation

MixedStartDrawing ==
    /\ phase = "transforming"
    /\ Len(points) < MaxPoints
    /\ \E p \in MixedSamples : Become(startDrawing(this, p[1], p[2]))
    /\ call' = Call("startDrawing", Zero, Zero)
    /\ UNCHANGED <<phase, before>>

MixedUpdateDrawing ==
    /\ phase = "transforming"
    /\ Len(points) >= 1
    /\ \E p \in MixedSamples :
          BecomeInRange(updateDrawing(this, p[1], p[2], FALSE))
    /\ call' = Call("updateDrawing", Zero, Zero)
    /\ UNCHANGED <<phase, before>>

MixedAddPoint ==
    /\ phase = "transforming"
    /\ Len(points) >= 2
    /\ Become(addPoint(this))
    /\ call' = Call("addPoint", Zero, Zero)
    /\ UNCHANGED <<phase, before>>

MixedStopDrawing ==
    /\ phase = "transforming"
    /\ Become(stopDrawing(this))
    /\ call' = Call("stopDrawing", Zero, Zero)
    /\ UNCHANGED <<phase, before>>

InitMixed ==
    /\ \E e \in Gallery, p \in MixedSamples, type \in TransformationKinds :
          /\ Is(startTransformation(e, p[1], p[2], type))
          /\ call = Call("startTransformation", p[1], p[2])
          /\ before = e.transformations
    /\ phase = "transforming"

NextMixed ==
    \/ MixedUpdateTransformation
    \/ MixedStopTransformation
    \/ MixedStartDrawing
    \/ MixedUpdateDrawing
    \/ MixedAddPoint
    \/ MixedStopDrawing

SpecMixed == InitMixed /\ [][NextMixed]_vars

\* ------------------------------------------------------------------------
\* The claims of the specification
\* ------------------------------------------------------------------------

\* the parameters of a transformation record
ParameterNames == {"slideX", "slideY", "angle", "scaleX", "scaleY", "endX", "endY"}

Parameters(t) == [f \in ParameterNames \cap DOMAIN t |-> t[f]]

\* a transformation list without the memoized centers of its records
WithoutCache(t) == Delete(t, {"elementTransformedCenter"})

Records(ts) == [i \in 1..Len(ts) |-> WithoutCache(ts[i])]

\* the last pointer position of the gesture in progress: the start, or the
\* position of the last update
Pointer == <<call.x, call.y>>

\* C1: the discard condition as the claim states it, on the last record t
\* when end() is called
C1_Dropped(t) ==
    \/ /\ t.type = TRANSLATION
       /\ Lt(Hypot2(t.slideX, t.slideY), Num(1))
    \/ /\ t.type = ROTATION
       /\ AbsBelowMinRotation(t.angle)
    \/ /\ t.type = REFLECTION
       /\ Lt(Hypot2(Sub(Pointer[1], t.startX), Sub(Pointer[2], t.startY)), Num(10 * 10))

\* C1: end() pops the pushed record exactly when the gesture is a Translation
\* shorter than 1 px, a Rotation of less than pi/1000 or a Reflection whose
\* last pointer position is nearer than 10 px to the start, and the list is
\* then the list before begin(); in every other case the list after end() is
\* the list before begin() plus one record of the type of the gesture.
C1_DiscardOnEnd ==
    [][(phase = "transforming" /\ phase' = "idle") =>
          IF C1_Dropped(Last(transformations))
          THEN Records(transformations') = Records(before)
          ELSE /\ Len(transformations') = Len(before) + 1
               /\ Records(Front(transformations')) = Records(before)
               /\ Last(transformations').type = Last(transformations).type
               /\ Parameters(Last(transformations'))
                      = Parameters(Delete(Last(transformations), {"endX", "endY"}))]_vars

\* a gesture on the rectangle of the gallery has ended and its record was
\* discarded: the list is empty again
C1_Witness ==
    /\ phase = "idle"
    /\ call.op = "stopTransformation"
    /\ shape = RECTANGLE
    /\ transformations = <<>>
    /\ originalCenter # Undefined

\* C2: a second update(x, y) with the same (x, y) leaves every parameter of
\* the last record as the first call left it.
C2_UpdateIdempotent ==
    [][(call'.op = "updateTransformation" /\ call'.again) =>
          Parameters(Last(transformations')) = Parameters(Last(transformations))]_vars

\* a Stretch has been updated twice with the same pointer position, and it
\* scales
C2_Witness ==
    /\ phase = "transforming"
    /\ call.op = "updateTransformation"
    /\ call.again
    /\ Last(transformations).type = STRETCH
    /\ Parameters(Last(transformations)) # Parameters(NewTransformation(Zero, Zero, STRETCH))

\* C3: between gestures no record carries startX, startY, endX or endY, and
\* the show-symmetry-element flag is false.
C3_NoTransientFields ==
    phase = "idle" =>
        /\ \A i \in 1..Len(transformations) :
              DOMAIN transformations[i] \cap {"startX", "startY", "endX", "endY"} = {}
        /\ showSymmetryElement = FALSE

\* a Reflection gesture has ended and its record is committed
C3_Witness ==
    /\ phase = "idle"
    /\ call.op = "stopTransformation"
    /\ Len(transformations) >= 1
    /\ Last(transformations).type = REFLECTION

\* C4: the element whose last record is as begin() pushed it
C4_Fresh(e) ==
    [e EXCEPT !.transformations[Len(e.transformations)] =
        NewTransformation(@.startX, @.startY, @.type)]

\* the parameters update(x, y) gives the record when no update came before
C4_FromStart(e, x, y) ==
    Parameters(Last(updateTransformation(C4_Fresh(e), x, y).transformations))

C4_Near(t, x, y) ==
    /\ t.type = REFLECTION
    /\ getNearness(<<t.startX, t.startY>>, <<x, y>>, MIN_REFLECTION_LINE_LENGTH)

C4_Updated ==
    /\ phase = "transforming"
    /\ call.op = "updateTransformation"
    /\ ~updateTransformationFaults(this)

\* C4 as stated: after update(x, y) the parameters of the last record are
\* those a gesture with the same start and center gets from update(x, y)
\* alone, whatever the earlier samples; a Reflection whose pointer is within
\* 10 px of the start has no mirror applied.
C4_HistoryFree ==
    C4_Updated => Parameters(Last(transformations)) = C4_FromStart(this, call.x, call.y)

\* C4, amended: the parameters after update(x, y) are those of update(x, y)
\* alone for every type but a Reflection whose pointer is within 10 px of the
\* start; that update writes endX and endY and keeps the mirror (slideX,
\* slideY, angle, scaleX, scaleY) of the update before it.
C4_HistoryFreeUnlessNear ==
    /\ [](C4_Updated /\ ~C4_Near(Last(transformations), call.x, call.y) =>
             Parameters(Last(transformations)) = C4_FromStart(this, call.x, call.y))
    /\ [][(/\ phase = "transforming"
           /\ call'.op = "updateTransformation"
           /\ C4_Near(Last(transformations), call'.x, call'.y)) =>
              /\ Delete(Parameters(Last(transformations')), {"endX", "endY"})
                    = Delete(Parameters(Last(transformations)), {"endX", "endY"})
              /\ Last(transformations').endX = call'.x
              /\ Last(transformations').endY = call'.y]_vars

\* a Reflection has been dragged away from its start and back: the pointer
\* is within 10 px of the start and the mirror is still applied
C4_Witness ==
    /\ C4_Updated
    /\ C4_Near(Last(transformations), call.x, call.y)
    /\ Last(transformations).scaleY = MinusOne

\* the points of the render path, as the markup writes numbers
C5_Rounded(pts) == [i \in 1..Len(pts) |-> <<Round2(pts[i][1]), Round2(pts[i][2])>>]

\* C5: where both emitters complete, the render path emits a shape exactly
\* when the markup emits one, of the same geometry and on the same points.
C5_SameGeometry ==
    (~buildCairoFaults(this) /\ ~buildSVGFaults(this)) =>
        /\ cairoShape(this).emitted = svgShape(this).emitted
        /\ cairoShape(this).kind = svgShape(this).kind
        /\ C5_Rounded(cairoShape(this).pts) = svgShape(this).pts

\* the rotations of a transform attribute, in radians
C6_InRadians(ops) ==
    [i \in 1..Len(ops) |->
        IF ops[i].op = "rotate" THEN OpRotate(DegreesToRadians(ops[i].angle)) ELSE ops[i]]

\* the operations the claim lists for the record at index i of e
C6_Listed(e, i) ==
    LET t == e.transformations[i]
        center == CenterValue(e, i)
        conjugation == <<OpRotate(t.angle), OpScale(t.scaleX, t.scaleY),
                         OpRotate(NegAngle(t.angle))>>
    IN  CASE t.type = TRANSLATION -> <<OpTranslate(t.slideX, t.slideY)>>
          [] t.type = ROTATION ->
                <<OpTranslate(center[1], center[2]), OpRotate(t.angle),
                  OpTranslate(Neg(center[1]), Neg(center[2]))>>
          [] t.type \in {SCALE_PRESERVE, STRETCH} ->
                <<OpTranslate(center[1], center[2])>> \o conjugation
                    \o <<OpTranslate(Neg(center[1]), Neg(center[2]))>>
          [] t.type \in {REFLECTION, INVERSION} ->
                <<OpTranslate(t.slideX, t.slideY)>> \o conjugation
                    \o <<OpTranslate(Neg(t.slideX), Neg(t.slideY))>>

RECURSIVE C6_ListedFrom(_, _)
C6_ListedFrom(e, k) ==
    IF k = 0 THEN <<>> ELSE C6_Listed(e, k) \o C6_ListedFrom(e, k - 1)

\* C6: the render path and the markup emit the same transform operations
\* with the same arguments (the markup writes its rotations in degrees), from
\* the most recent record to the oldest, and per record the operations the
\* claim lists.
C6_SameTransformOps ==
    (~CairoTransformFaults(this) /\ ~SvgTransformFaults(this)) =>
        /\ C6_InRadians(svgTransformOps(this)) = cairoTransformOps(this)
        /\ cairoTransformOps(this) = C6_ListedFrom(this, Len(transformations))

\* a stack of two records of different kinds, a scaling under a rotation
C6_Witness ==
    /\ phase = "idle"
    /\ Len(transformations) = 2
    /\ transformations[1].type = STRETCH
    /\ transformations[2].type = ROTATION
    /\ cairoTransformOps(this) # <<>>

\* C7: in every state of the drawing of an element, neither the render path
\* nor the markup export throws.
C7_EmittersNeverFault ==
    ~buildCairoFaults(this) /\ ~buildSVGFaults(this)

\* C8: the element constructed from the persisted record of an element has
\* as many points, each coordinate within 0.01 of the original, and the same
\* transformation list; its own persisted record is the same record.
C8_RoundTrip ==
    [][call'.op = "reload" =>
          /\ Len(points') = Len(points)
          /\ \A i \in 1..Len(points) : \A c \in {1, 2} :
                Le(Abs(Sub(points'[i][c], points[i][c])), Q(1, 100))
          /\ transformations' = transformations
          /\ toJSON(this)' = toJSON(this)]_vars

\* a saved drawing with two points and two records has been read back, and a
\* coordinate was rounded (0.125 to 0.13)
C8_Witness ==
    /\ call.op = "reload"
    /\ Len(points) = 2
    /\ Len(transformations) = 2
    /\ points[1][1] = Q(13, 100)

\* C9: while the element is drawn and holds a transformation, no builder
\* call changes the point list.
C9_PointsFrozen ==
    [][(phase = "drawing" /\ Len(transformations) >= 1) => points' = points]_vars

\* _getOriginalCenter() would not throw if it had nothing cached
C10_Recomputable == ~OriginalCenterFaults([this EXCEPT !.originalCenter = Undefined])

\* C10: a cached original center is the center of the current points, and a
\* cached transformed center is the value recomputed from that center and
\* the records before it.
C10_CachesFresh ==
    /\ (originalCenter # Undefined /\ C10_Recomputable) =>
           originalCenter = OriginalCenterOf(this)
    /\ \A i \in 1..Len(transformations) :
           (Has(transformations[i], "elementTransformedCenter") /\ C10_Recomputable) =>
               transformations[i].elementTransformedCenter
                   = TransformedCenterOf(transformations, i, OriginalCenterOf(this))

\* the last record of the gesture in progress has been updated
C11_Reflecting ==
    /\ phase = "transforming"
    /\ call.op = "updateTransformation"
    /\ Last(transformations).type = REFLECTION

\* C11: a Reflection whose pointer is 10 px or more from the start (sx, sy)
\* and with |y - sy| <= 5 < |x - sx| is the horizontal mirror through y = sy
\* (scaleX = 1, scaleY = -1, slideX = 0, slideY = sy, angle = pi); with
\* |x - sx| <= 5 < |y - sy| it is the vertical mirror through x = sx
\* (scaleX = -1, scaleY = 1, slideX = sx, slideY = 0, angle = pi).
C11_AxisMirror ==
    C11_Reflecting =>
        LET t == Last(transformations)
            dx == Abs(Sub(call.x, t.startX))
            dy == Abs(Sub(call.y, t.startY))
            far == Le(Num(10 * 10), Hypot2(dx, dy))
        IN  /\ (far /\ Le(dy, Num(5)) /\ Lt(Num(5), dx)) =>
                   /\ t.scaleX = One /\ t.scaleY = MinusOne
                   /\ t.slideX = Zero /\ t.slideY = t.startY
                   /\ t.angle = PiAngle
            /\ (far /\ Le(dx, Num(5)) /\ Lt(Num(5), dy)) =>
                   /\ t.scaleX = MinusOne /\ t.scaleY = One
                   /\ t.slideX = t.startX /\ t.slideY = Zero
                   /\ t.angle = PiAngle

\* the Reflection begun at (0,0) has been dragged to (10,0), exactly 10 px
\* away: it is the horizontal mirror through y = 0
C11_Witness ==
    /\ C11_Reflecting
    /\ Last(transformations).startX = Zero /\ Last(transformations).startY = Zero
    /\ call.x = Num(10) /\ call.y = Zero
    /\ Last(transformations).scaleY = MinusOne

\* the last record is a Stretch that has been updated
C12_Stretching ==
    /\ phase = "transforming"
    /\ call.op = "updateTransformation"
    /\ Last(transformations).type = STRETCH
    /\ Has(Last(transformations), "elementTransformedCenter")

\* (distance(center, (x, y)) / distance(center, start)) squared
C12_Ratio2(t, center) ==
    Div(Hypot2(Sub(call.x, center[1]), Sub(call.y, center[2])),
        Hypot2(Sub(t.startX, center[1]), Sub(t.startY, center[2])))

\* |sin| or |cos| of the angle of start about center is at least cos(pi/8),
\* from the square q of the sine or the cosine: 4q - 2 >= sqrt(2)
C12_AtLeastCosPi8(q) ==
    /\ Le(Num(2), Mul(Num(4), q))
    /\ Le(Num(2), Mul(Sub(Mul(Num(4), q), Num(2)), Sub(Mul(Num(4), q), Num(2))))

C12_Vertical(t, center) ==
    C12_AtLeastCosPi8(Div(Mul(Sub(t.startY, center[2]), Sub(t.startY, center[2])),
                          Hypot2(Sub(t.startX, center[1]), Sub(t.startY, center[2]))))

C12_Horizontal(t, center) ==
    C12_AtLeastCosPi8(Div(Mul(Sub(t.startX, center[1]), Sub(t.startX, center[1])),
                          Hypot2(Sub(t.startX, center[1]), Sub(t.startY, center[2]))))

\* the parameters of a Stretch from its scale and the scale of its second
\* axis when the stretch axis is neither vertical nor horizontal
C12_Parameters(t, center, scale, other) ==
    IF C12_Vertical(t, center)
        THEN t.scaleX = One /\ t.scaleY = scale /\ t.angle = ZeroAngle
    ELSE IF C12_Horizontal(t, center)
        THEN t.scaleX = scale /\ t.scaleY = One /\ t.angle = ZeroAngle
    ELSE /\ t.scaleX = scale /\ t.scaleY = other
         /\ t.angle = AngleFromHorizontal(center, call.x, call.y)

\* the scale from the square q of the quotient of the distances: 1 when the
\* quotient is 0 or NaN
C12_Scale(q) == IF q = Zero \/ IsNaN(q) THEN One ELSE <<1, q[1], q[2]>>

\* C12 as stated: with scale = distance(center, (x,y)) / distance(center,
\* start), a Stretch has scaleX = 1, scaleY = scale, angle = 0 on a vertical
\* axis, scaleX = scale, scaleY = 1, angle = 0 on a horizontal axis, and
\* scaleX = scaleY = scale with the angle of the pointer otherwise.
C12_StretchAsStated ==
    C12_Stretching =>
        LET t == Last(transformations)
            center == t.elementTransformedCenter
            q == C12_Ratio2(t, center)
        IN  C12_Parameters(t, center, C12_Scale(q), C12_Scale(q))

\* C12, amended: on an axis that is neither vertical nor horizontal a
\* Stretch has scaleX = scale, scaleY = 1 and the angle of the pointer about
\* the center; on a vertical or a horizontal axis it is as stated.
C12_StretchAlongAxis ==
    C12_Stretching =>
        LET t == Last(transformations)
            center == t.elementTransformedCenter
            q == C12_Ratio2(t, center)
        IN  C12_Parameters(t, center, C12_Scale(q), One)

\* a Stretch begun at (6,8) about the center (0,0), neither vertical nor
\* horizontal, has been dragged: it scales along x only and has an angle
C12_Witness ==
    /\ C12_Stretching
    /\ ~C12_Vertical(Last(transformations), Last(transformations).elementTransformedCenter)
    /\ ~C12_Horizontal(Last(transformations), Last(transformations).elementTransformedCenter)
    /\ Last(transformations).scaleX \notin {One, <<1, 1, 0>>}
    /\ Last(transformations).scaleY = One
    /\ Last(transformations).angle \notin {ZeroAngle, NaNAngle}

\* a ScalePreserve or Stretch gesture has been updated, and it began on the
\* transformed center of the element
C13_StartOnCenter ==
    /\ phase = "transforming"
    /\ call.op = "updateTransformation"
    /\ Last(transformations).type \in {SCALE_PRESERVE, STRETCH}
    /\ Has(Last(transformations), "elementTransformedCenter")
    /\ <<Last(transformations).startX, Last(transformations).startY>>
           = Last(transformations).elementTransformedCenter

\* C13: a ScalePreserve or Stretch gesture that begins on the transformed
\* center of the element has scale 1 after update(x, y), for every pointer
\* position; and a ScalePreserve record has scaleX = scaleY.
C13_ScaleOneFromCenter ==
    /\ C13_StartOnCenter =>
           /\ Last(transformations).scaleX = One
           /\ Last(transformations).scaleY = One
    /\ \A i \in 1..Len(transformations) :
           transformations[i].type = SCALE_PRESERVE =>
               transformations[i].scaleX = transformations[i].scaleY

\* a scale that is neither 0 nor NaN
C14_NonZero(s) == s[2] # 0

\* C14: in every state reachable through begin, update and end, every
\* Reflection record has scaleX and scaleY in {-1, 1}, every Inversion record
\* has scaleX = scaleY = -1, and every ScalePreserve or Stretch record has
\* scaleX and scaleY different from 0.
C14_ScaleDomain ==
    \A i \in 1..Len(transformations) :
        /\ transformations[i].type = REFLECTION =>
               /\ transformations[i].scaleX \in {One, MinusOne}
               /\ transformations[i].scaleY \in {One, MinusOne}
        /\ transformations[i].type = INVERSION =>
               /\ transformations[i].scaleX = MinusOne
               /\ transformations[i].scaleY = MinusOne
        /\ transformations[i].type \in {SCALE_PRESERVE, STRETCH} =>
               /\ C14_NonZero(transformations[i].scaleX)
               /\ C14_NonZero(transformations[i].scaleY)

\* a ScalePreserve gesture that began off the center has been updated with
\* the pointer exactly on the center
C14_Witness ==
    /\ phase = "transforming"
    /\ call.op = "updateTransformation"
    /\ Last(transformations).type = SCALE_PRESERVE
    /\ Has(Last(transformations), "elementTransformedCenter")
    /\ <<call.x, call.y>> = Last(transformations).elementTransformedCenter
    /\ <<Last(transformations).startX, Last(transformations).startY>>
           # Last(transformations).elementTransformedCenter
    /\ Last(transformations).scaleX = One

\* the midpoint of two points, as the claim states it
C15_Mid(p, q) == <<Div(Add(p[1], q[1]), Num(2)), Div(Add(p[2], q[2]), Num(2))>>

\* the step is an updateDrawing(x, y) that appends a point to a Freehand
\* element
C15_Appends ==
    /\ call'.op = "updateDrawing"
    /\ shape = NONE
    /\ Len(points') = Len(points) + 1

\* C15: when updateDrawing(x, y) with smoothing enabled appends a point at
\* index i >= 2 of a Freehand element, the point at index i is (x, y), the
\* point at index i-1 becomes the midpoint of the points at i-2 and i, and
\* every point at index < i-1 is unchanged; with i < 2, or with smoothing
\* disabled and no transformation on the element, no existing point changes.
\* (Index i of the source is position i+1 of the sequence.)
C15_Smoothing ==
    [][C15_Appends =>
          LET i == Len(points)
          IN  /\ points'[i+1] = <<call'.x, call'.y>>
              /\ (call'.transform /\ i >= 2) =>
                     /\ points'[i] = C15_Mid(points'[i-1], points'[i+1])
                     /\ \A j \in 1..(i-1) : points'[j] = points[j]
              /\ (i < 2 \/ (~call'.transform /\ Len(transformations) = 0)) =>
                     \A j \in 1..i : points'[j] = points[j]]_vars

\* (0,0), (1,1), (2,0) have been appended with smoothing enabled: index 1 is
\* now (1,0)
C15_Witness ==
    /\ phase = "drawing"
    /\ call.op = "updateDrawing"
    /\ call.transform
    /\ Len(transformations) = 0
    /\ points = <<<<Num(0), Num(0)>>, <<Num(1), Num(0)>>, <<Num(2), Num(0)>>>>

\* the last two points are nearer than 3 px
C16_Click(pts) ==
    /\ Len(pts) >= 2
    /\ Lt(Hypot2(Sub(pts[Len(pts)][1], pts[Len(pts) - 1][1]),
                 Sub(pts[Len(pts)][2], pts[Len(pts) - 1][2])), Num(3 * 3))

\* the live rotation of the drag, at index 0, turns by less than pi/1000
C16_SmallLiveRotation(ts) ==
    /\ Len(ts) >= 1
    /\ ts[1].type = ROTATION
    /\ AbsBelowMinRotation(ts[1].angle)

C17_Constructed == call.op = "new" /\ Has(call, "params")

\* a field of the legacy transform, 0 when absent
C17_Field(params, f) ==
    IF Has(params.transform, f) THEN params.transform[f] ELSE Zero

C17_Sum(params) == Add(C17_Field(params, "angle"), C17_Field(params, "startAngle"))

C17_List(params) ==
    IF Has(params, "transformations") THEN params.transformations ELSE <<>>

C17_Rotation(params) ==
    [type |-> ROTATION,
     angle |-> <<"rad", 1, C17_Sum(params)[1], C17_Sum(params)[2]>>]

\* p0 + ratio * (p1 - p0)
C17_ThirdPoint(ps, ratio) ==
    <<Add(ps[1][1], Mul(ratio, Sub(ps[2][1], ps[1][1]))),
      Add(ps[1][2], Mul(ratio, Sub(ps[2][2], ps[1][2])))>>

C17_HasRatio(params) ==
    /\ params.shape = ELLIPSE
    /\ Len(params.points) >= 2
    /\ Has(params.transform, "ratio")
    /\ params.transform.ratio # Num(1)

C17_Points(params) ==
    IF C17_HasRatio(params) /\ params.transform.ratio # Zero
    THEN Append(params.points, C17_ThirdPoint(params.points, params.transform.ratio))
    ELSE params.points

C17_Plain(params) ==
    ~Has(params, "transform") =>
        /\ transformations = C17_List(params)
        /\ points = params.points

\* C17 as stated: an element constructed from a record with a legacy
\* transform has the list of the record (empty when absent) followed by one
\* Rotation of angle transform.angle + transform.startAngle; an Ellipse with
\* at least 2 points and a ratio different from 1 gets the point
\* p0 + ratio * (p1 - p0) appended; a record without a legacy transform gets
\* no transformation and no point added.
C17_LegacyAsStated ==
    C17_Constructed =>
        /\ Has(call.params, "transform") =>
               /\ transformations = Append(C17_List(call.params), C17_Rotation(call.params))
               /\ points = C17_Points(call.params)
        /\ C17_Plain(call.params)

\* C17, amended: the Rotation is appended only when the legacy transform has
\* a center and the sum of its angles is not 0; otherwise the list is the
\* list of the record.  The point of the ratio is appended when the ratio is
\* neither 0 nor 1.
C17_LegacyIntake ==
    C17_Constructed =>
        /\ Has(call.params, "transform") =>
               /\ transformations =
                      IF Has(call.params.transform, "center") /\ C17_Sum(call.params) # Zero
                      THEN Append(C17_List(call.params), C17_Rotation(call.params))
                      ELSE C17_List(call.params)
               /\ points = C17_Points(call.params)
        /\ C17_Plain(call.params)

\* a legacy ellipse of two points with a list, a turn in both angles and a
\* ratio of 2 has been constructed: it has a third point and one more record
C17_Witness ==
    /\ C17_Constructed
    /\ Has(call.params, "transform")
    /\ C17_HasRatio(call.params)
    /\ Len(call.params.points) = 2
    /\ C17_Field(call.params, "startAngle") # Zero
    /\ Len(C17_List(call.params)) = 2
    /\ Len(transformations) = 3
    /\ points[3] = <<Num(8), Num(4)>>

\* the sum of the slides of the Translation records among the first k
RECURSIVE C18_Slides(_, _)
C18_Slides(ts, k) ==
    IF k = 0 THEN <<Zero, Zero>>
    ELSE IF ts[k].type = TRANSLATION
        THEN <<Add(C18_Slides(ts, k - 1)[1], ts[k].slideX),
               Add(C18_Slides(ts, k - 1)[2], ts[k].slideY)>>
    ELSE C18_Slides(ts, k - 1)

\* the records before index i keep or slide the center
C18_Centered(ts, i) ==
    \A j \in 1..(i - 1) : ts[j].type \in {TRANSLATION, ROTATION, SCALE_PRESERVE, STRETCH}

C18_Expected(ts, i, center) ==
    <<Add(center[1], C18_Slides(ts, i - 1)[1]), Add(center[2], C18_Slides(ts, i - 1)[2])>>

\* C18: for a record at index i whose preceding records are only
\* Translation, Rotation, ScalePreserve and Stretch records, the transformed
\* center is the original center plus the sum of the slides of the
\* Translation records before i, as computed and as cached on the record,
\* whatever the records at or after i.
C18_TransformedCenter ==
    originalCenter # Undefined =>
        \A i \in 1..Len(transformations) :
            C18_Centered(transformations, i) =>
                /\ TransformedCenterOf(transformations, i, originalCenter)
                       = C18_Expected(transformations, i, originalCenter)
                /\ Has(transformations[i], "elementTransformedCenter") =>
                       transformations[i].elementTransformedCenter
                           = C18_Expected(transformations, i, originalCenter)

\* a scaling after a Translation that slides: its cached center is not the
\* original one
C18_Witness ==
    /\ Len(transformations) = 2
    /\ transformations[1].type = TRANSLATION
    /\ transformations[1].slideX # Zero
    /\ transformations[2].type = SCALE_PRESERVE
    /\ Has(transformations[2], "elementTransformedCenter")
    /\ originalCenter # Undefined
    /\ transformations[2].elementTransformedCenter # originalCenter

\* C20: every Rotation record that remains in the list after end() has a
\* defined, finite angle of at least pi/1000 in absolute value, also when the
\* gesture began on the transformed center of the element or its pointer
\* passed over it.
C20_CommittedRotations ==
    (phase = "idle" /\ call.op = "stopTransformation") =>
        \A i \in 1..Len(transformations) :
            transformations[i].type = ROTATION =>
                /\ transformations[i].angle # NaNAngle
                /\ ~AbsBelowMinRotation(transformations[i].angle)

\* C19: whenever the show-symmetry-element flag is true, the transformation
\* list is not empty and its last record is a Reflection or an Inversion that
\* carries startX, startY, endX and endY, under any interleaving of the
\* gesture and the drawing operations.
C19_SymmetryElementDrawable ==
    showSymmetryElement =>
        /\ Len(transformations) >= 1
        /\ Last(transformations).type \in {REFLECTION, INVERSION}
        /\ {"startX", "startY", "endX", "endY"} \subseteq DOMAIN Last(transformations)

====
